---- MODULE Spec2Model ----
(***************************************************************************)
(* Model of src/dag.py: the stochastic edge weighting                       *)
(* (assign_dynamic_weights), the online planning loop (online_planning)    *)
(* and the two shortest-path queries it makes (nx.shortest_path_length,    *)
(* nx.shortest_path over a MultiDiGraph, weight="weight").                 *)
(*                                                                         *)
(* Costs are Python floats.  The model keeps them as integers counted in   *)
(* halves (Unit = 2 stands for 1.0), so that every weight factor of the    *)
(* source (0.5, 1, 1.5, 2.5, 5) is an integer, plus the two special float  *)
(* values Inf and NaN with their IEEE arithmetic and comparisons.  Edge    *)
(* lengths are whole numbers, for which the float sums and quotients of    *)
(* the source are exact.                                                   *)
(***************************************************************************)
EXTENDS Integers, Sequences, FiniteSets, TLC

\* ------------------------------------------------------------------ bounds
\* at most MaxBlocked edges are drawn as blocked by one redraw
MaxBlocked == 2
\* rollouts is drawn from 1..MaxRollouts and the default
MaxRollouts == 2

\* ------------------------------------------------------------ float values
Unit == 2
DefaultRollouts == 5
Inf == 1000000
NaN == -1
None == 0

IsFinite(x) == x # Inf /\ x # NaN

\* x + y on floats
FAdd(x, y) ==
  IF x = NaN \/ y = NaN THEN NaN
  ELSE IF x = Inf \/ y = Inf THEN Inf
  ELSE x + y

\* x * y on non-negative floats, x a length in whole units and y a factor
\* in halves; 0 * inf is nan
FMul(x, y) ==
  IF x = NaN \/ y = NaN THEN NaN
  ELSE IF x = Inf \/ y = Inf
       THEN (IF x = 0 \/ y = 0 THEN NaN ELSE Inf)
  ELSE x * y

\* x / n for a positive whole number n
FDiv(x, n) ==
  IF x = NaN THEN NaN
  ELSE IF x = Inf THEN Inf
  ELSE x \div n

\* x < y on floats: every comparison with nan is false
FLt(x, y) == x # NaN /\ y # NaN /\ x < y

\* x == y on floats: nan equals nothing
FEq(x, y) == x # NaN /\ y # NaN /\ x = y

\* ------------------------------------------------------------ dictionaries
\* dict.get(key, default)
Get(data, key, default) == IF key \in DOMAIN data THEN data[key] ELSE default

\* data[key] = value
Put(data, key, value) ==
  [k \in DOMAIN data \cup {key} |-> IF k = key THEN value ELSE data[k]]

\* ------------------------------------------------------------------ graph
\* A MultiDiGraph is [nodes |-> set of nodes,
\*                    edges |-> sequence of [u, v, key, data]]
\* in insertion order; data is the edge's attribute dictionary.  A highway
\* attribute is a string, Str(name), or a list of strings, List(items).
Str(name) == [list |-> FALSE, name |-> name]
List(items) == [list |-> TRUE, items |-> items]

EdgeIds(G) == 1..Len(G.edges)

\* lines 51-53: the highway type of an edge, the first entry of a list
highway_type(data) ==
  LET h == Get(data, "highway", Str(""))
  IN IF h.list THEN h.items[1] ELSE h.name

\* lines 55-64: the base weight factor of an edge, in halves
base_factor(data) ==
  LET t == highway_type(data)
  IN IF t \in {"service", "cycleway"} THEN 1
     ELSE IF t \in {"residential", "unclassified"} THEN Unit
     ELSE IF t = "tertiary" THEN 3
     ELSE IF t \in {"primary", "secondary", "trunk"}
          THEN Get(data, "highway_penalty", 5)
     ELSE 5 * Unit

\* lines 55-68: the weight one edge gets; blocked says that the edge's draw
\* random.random() < 0.01 came out true
edge_weight(data, blocked) ==
  LET weight_factor == IF blocked THEN Inf ELSE base_factor(data)
  IN FMul(Get(data, "length", 1), weight_factor)

\* the product stored under the wrong key
assign_dynamic_weights_length(G, B) ==
  [G EXCEPT !.edges =
     [i \in EdgeIds(G) |->
        [G.edges[i] EXCEPT !.data =
           Put(G.edges[i].data, "length",
               edge_weight(G.edges[i].data, i \in B))]]]

\* lines 45-68: every edge gets a new weight; B is the set of edges whose
\* draw came out blocked; nothing else of the graph changes
assign_dynamic_weights(G, B) ==
  [G EXCEPT !.edges =
     [i \in EdgeIds(G) |->
        [G.edges[i] EXCEPT !.data =
           Put(G.edges[i].data, "weight",
               edge_weight(G.edges[i].data, i \in B))]]]

\* the outcomes of one redraw: any set of at most MaxBlocked edges is blocked
Draws(G) == {B \in SUBSET EdgeIds(G) : Cardinality(B) <= MaxBlocked}

\* list(G.neighbors(v)) (line 92): the successors of v in the order in which
\* the first edge to each was inserted
RECURSIVE FirstSeen(_, _, _)
FirstSeen(es, i, acc) ==
  IF i > Len(es) THEN acc
  ELSE FirstSeen(es, i + 1,
         IF \E j \in 1..Len(acc) : acc[j] = es[i] THEN acc
         ELSE Append(acc, es[i]))

Successors(G, v) ==
  LET ids == SelectSeq([i \in EdgeIds(G) |-> i], LAMBDA i : G.edges[i].u = v)
  IN FirstSeen([j \in 1..Len(ids) |-> G.edges[ids[j]].v], 1, <<>>)

\* G._pred[v]: the predecessors of v, in the same order
Predecessors(G, v) ==
  LET ids == SelectSeq([i \in EdgeIds(G) |-> i], LAMBDA i : G.edges[i].v = v)
  IN FirstSeen([j \in 1..Len(ids) |-> G.edges[ids[j]].u], 1, <<>>)

\* --------------------------------------------------------------- heapq
\* Heap items are the tuples <<distance, count, node>> of networkx.  Tuples
\* compare at the first position where they differ by ==; the counts of two
\* items always differ.
ItemLt(a, b) == IF FEq(a[1], b[1]) THEN a[2] < b[2] ELSE FLt(a[1], b[1])

\* heapq._siftdown, positions counted from 0
RECURSIVE _siftdown(_, _, _, _)
_siftdown(heap, startpos, pos, newitem) ==
  IF pos > startpos
  THEN LET parentpos == (pos - 1) \div 2
           parent == heap[parentpos + 1]
       IN IF ItemLt(newitem, parent)
          THEN _siftdown([heap EXCEPT ![pos + 1] = parent], startpos,
                         parentpos, newitem)
          ELSE [heap EXCEPT ![pos + 1] = newitem]
  ELSE [heap EXCEPT ![pos + 1] = newitem]

\* heapq._siftup, positions counted from 0
RECURSIVE _siftup(_, _, _, _)
_siftup(heap, startpos, pos, newitem) ==
  LET endpos == Len(heap)
      childpos == 2 * pos + 1
      rightpos == childpos + 1
      c == IF rightpos < endpos
              /\ ~ItemLt(heap[childpos + 1], heap[rightpos + 1])
           THEN rightpos ELSE childpos
  IN IF childpos < endpos
     THEN _siftup([heap EXCEPT ![pos + 1] = heap[c + 1]], startpos, c, newitem)
     ELSE _siftdown(heap, startpos, pos, newitem)

heappush(heap, item) == _siftdown(Append(heap, item), 0, Len(heap), item)

\* heappop returns heap[0]; this is the heap it leaves
heappop(heap) ==
  IF Len(heap) = 1 THEN <<>>
  ELSE LET lastelt == heap[Len(heap)]
           h == SubSeq(heap, 1, Len(heap) - 1)
       IN _siftup(h, 0, 0, lastelt)

\* ------------------------------------------------------------- networkx
\* Python's min over a non-empty sequence of floats: a later item replaces
\* the best one only if it compares smaller
RECURSIVE pymin(_, _, _)
pymin(xs, i, best) ==
  IF i > Len(xs) THEN best
  ELSE pymin(xs, i + 1, IF FLt(xs[i], best) THEN xs[i] ELSE best)

\* _weight_function for a multigraph: the least weight of the parallel edges
\* from u to v, in insertion order; a missing weight counts as 1
EdgeCost(G, u, v) ==
  LET ids == SelectSeq([i \in EdgeIds(G) |-> i],
                       LAMBDA i : G.edges[i].u = u /\ G.edges[i].v = v)
      ws == [j \in 1..Len(ids) |-> Get(G.edges[ids[j]].data, "weight", Unit)]
  IN pymin(ws, 2, ws[1])

\* _dijkstra_multisource, the for loop over the successors of v
RECURSIVE Relax(_, _, _, _, _)
Relax(G, v, nbrs, j, st) ==
  IF j > Len(nbrs) THEN st
  ELSE LET u == nbrs[j]
           vu_dist == FAdd(st.dist[v], EdgeCost(G, v, u))
       IN IF u \in DOMAIN st.dist
          THEN IF FLt(vu_dist, st.dist[u])
               THEN [st EXCEPT !.err = TRUE]
               ELSE Relax(G, v, nbrs, j + 1, st)
          ELSE IF u \notin DOMAIN st.seen \/ FLt(vu_dist, st.seen[u])
               THEN Relax(G, v, nbrs, j + 1,
                          [st EXCEPT !.seen = Put(@, u, vu_dist),
                                     !.fringe = heappush(@, <<vu_dist, st.c, u>>),
                                     !.c = @ + 1])
               ELSE Relax(G, v, nbrs, j + 1, st)

\* _dijkstra_multisource, the while loop over the fringe
RECURSIVE DijkstraLoop(_, _, _)
DijkstraLoop(G, target, st) ==
  IF st.err \/ st.fringe = <<>> THEN st
  ELSE LET d == st.fringe[1][1]
           v == st.fringe[1][3]
           st1 == [st EXCEPT !.fringe = heappop(@)]
       IN IF v \in DOMAIN st.dist THEN DijkstraLoop(G, target, st1)
          ELSE LET st2 == [st1 EXCEPT !.dist = Put(@, v, d)]
               IN IF v = target THEN st2
                  ELSE DijkstraLoop(G, target,
                                    Relax(G, v, Successors(G, v), 1, st2))

\* Outcomes of a shortest-path query: a value, NetworkXNoPath, or the
\* ValueError "Contradictory paths found" of the Dijkstra loops
Ok(x) == [kind |-> "ok", value |-> x]
NoPath == [kind |-> "NetworkXNoPath", value |-> None]
ValueError == [kind |-> "ValueError", value |-> None]

\* nx.shortest_path_length(G, source, target, weight="weight") (line 109)
shortest_path_length(G, source, target) ==
  IF source = target THEN Ok(0)
  ELSE LET st == DijkstraLoop(G, target,
                   [dist |-> <<>>, seen |-> Put(<<>>, source, 0), c |-> 1,
                    fringe |-> <<<<0, 0, source>>>>, err |-> FALSE])
       IN IF st.err THEN ValueError
          ELSE IF target \in DOMAIN st.dist THEN Ok(st.dist[target])
          ELSE NoPath

Reverse(xs) == [i \in 1..Len(xs) |-> xs[Len(xs) + 1 - i]]

\* bidirectional_dijkstra, the for loop over the neighbours of v in
\* direction dir (1 forward over successors, 2 backward over predecessors)
RECURSIVE BiRelax(_, _, _, _, _)
BiRelax(G, v, nbrs, j, st) ==
  IF j > Len(nbrs) THEN st
  ELSE LET dir == st.dir
           w == nbrs[j]
           cost == IF dir = 1 THEN EdgeCost(G, v, w) ELSE EdgeCost(G, w, v)
           vwLength == FAdd(st.dists[dir][v], cost)
       IN IF w \in DOMAIN st.dists[dir]
          THEN IF FLt(vwLength, st.dists[dir][w])
               THEN [st EXCEPT !.err = TRUE]
               ELSE BiRelax(G, v, nbrs, j + 1, st)
          ELSE IF w \notin DOMAIN st.seen[dir] \/ FLt(vwLength, st.seen[dir][w])
               THEN LET st1 == [st EXCEPT
                               !.seen[dir] = Put(@, w, vwLength),
                               !.fringe[dir] = heappush(@, <<vwLength, st.c, w>>),
                               !.c = @ + 1,
                               !.paths[dir] = Put(@, w, Append(@[v], w))]
                        totaldist == FAdd(st1.seen[1][w], st1.seen[2][w])
                    IN IF w \in DOMAIN st1.seen[1] /\ w \in DOMAIN st1.seen[2]
                          /\ (st1.finalpath = <<>> \/ FLt(totaldist, st1.finaldist))
                       THEN BiRelax(G, v, nbrs, j + 1,
                              [st1 EXCEPT
                                 !.finaldist = totaldist,
                                 !.finalpath = st1.paths[1][w]
                                     \o Tail(Reverse(st1.paths[2][w]))])
                       ELSE BiRelax(G, v, nbrs, j + 1, st1)
               ELSE BiRelax(G, v, nbrs, j + 1, st)

\* bidirectional_dijkstra, the while loop: directions alternate
RECURSIVE BiLoop(_, _)
BiLoop(G, st) ==
  IF st.err \/ st.found THEN st
  ELSE IF st.fringe[1] = <<>> \/ st.fringe[2] = <<>> THEN st
  ELSE LET dir == 3 - st.dir
           dist == st.fringe[dir][1][1]
           v == st.fringe[dir][1][3]
           st1 == [st EXCEPT !.dir = dir, !.fringe[dir] = heappop(@)]
       IN IF v \in DOMAIN st.dists[dir] THEN BiLoop(G, st1)
          ELSE LET st2 == [st1 EXCEPT !.dists[dir] = Put(@, v, dist)]
               IN IF v \in DOMAIN st2.dists[3 - dir]
                  THEN [st2 EXCEPT !.found = TRUE]
                  ELSE BiLoop(G, BiRelax(G, v,
                                IF dir = 1 THEN Successors(G, v)
                                ELSE Predecessors(G, v), 1, st2))

\* nx.shortest_path(G, source=..., target=..., weight="weight")
\* (lines 96, 120): bidirectional_dijkstra's path
shortest_path(G, source, target) ==
  IF source = target THEN Ok(<<source>>)
  ELSE LET st == BiLoop(G,
                   [dists |-> <<<<>>, <<>>>>,
                    paths |-> <<Put(<<>>, source, <<source>>),
                                Put(<<>>, target, <<target>>)>>,
                    fringe |-> <<<<<<0, 0, source>>>>, <<<<0, 1, target>>>>>>,
                    seen |-> <<Put(<<>>, source, 0), Put(<<>>, target, 0)>>,
                    c |-> 2, finaldist |-> Inf, finalpath |-> <<>>,
                    dir |-> 2, err |-> FALSE, found |-> FALSE])
       IN IF st.err THEN ValueError
          ELSE IF st.found THEN Ok(st.finalpath)
          ELSE NoPath

\* ------------------------------------------------------------ scenarios
Edge(u, v, key, data) == [u |-> u, v |-> v, key |-> key, data |-> data]

\* The worked example: A = 1, B = 2, C = 3, D = 4, all residential
ExampleGraph ==
  [nodes |-> 1..4,
   edges |-> << Edge(1, 2, 0, [length |-> 1, highway |-> Str("residential")]),
                Edge(1, 3, 0, [length |-> 1, highway |-> Str("residential")]),
                Edge(2, 4, 0, [length |-> 5, highway |-> Str("residential")]),
                Edge(3, 4, 0, [length |-> 1, highway |-> Str("residential")]) >>]

\* Two 2-cycles 1 <-> 2 <-> 3 beside the only route 1 -> 5 -> 4
CycleGraph ==
  [nodes |-> 1..5,
   edges |-> << Edge(1, 2, 0, [length |-> 1, highway |-> Str("service")]),
                Edge(2, 1, 0, [length |-> 1, highway |-> Str("cycleway")]),
                Edge(2, 3, 0, [highway |-> Str("unclassified")]),
                Edge(3, 2, 0, [length |-> 1, highway |-> Str("tertiary")]),
                Edge(1, 5, 0, [length |-> 2, highway |-> Str("primary")]),
                Edge(5, 4, 0, [length |-> 1, highway |-> Str("secondary"),
                               highway_penalty |-> 6]) >>]

\* Edges of length 0, parallel edges, a highway list and an unknown class
ZeroGraph ==
  [nodes |-> 1..3,
   edges |-> << Edge(1, 2, 0, [length |-> 0, highway |-> Str("residential")]),
                Edge(1, 2, 1, [length |-> 2, highway |-> Str("motorway")]),
                Edge(2, 1, 0, [length |-> 0,
                               highway |-> List(<<"residential", "primary">>)]),
                Edge(1, 3, 0, [length |-> 0, highway |-> Str("trunk")]) >>]

\* A graph on which a blocked edge of length 0 (2 -> 4) disorders the heap of
\* the search from node 2
HeapGraph ==
  [nodes |-> 1..6,
   edges |-> << Edge(1, 2, 0, [length |-> 1, highway |-> Str("residential")]),
                Edge(2, 3, 0, [length |-> 3, highway |-> Str("residential")]),
                Edge(2, 4, 0, [length |-> 0, highway |-> Str("residential")]),
                Edge(2, 1, 0, [length |-> 5, highway |-> Str("residential")]),
                Edge(2, 5, 0, [length |-> 2, highway |-> Str("residential")]),
                Edge(5, 3, 0, [length |-> 1, highway |-> Str("service")]),
                Edge(3, 6, 0, [length |-> 1, highway |-> Str("footway")]) >>]

\* Two routes of equal cost; the successor with the higher identifier is
\* enumerated first
TieGraph ==
  [nodes |-> 1..4,
   edges |-> << Edge(1, 3, 0, [length |-> 1, highway |-> Str("residential")]),
                Edge(1, 2, 0, [length |-> 1, highway |-> Str("residential")]),
                Edge(3, 4, 0, [length |-> 2, highway |-> Str("residential")]),
                Edge(2, 4, 0, [length |-> 2, highway |-> Str("residential")]) >>]

\* The arguments of a call of online_planning.  The function is modelled for
\* any origin and destination of the graph it is given, also for those that
\* the check of lines 77-84 would reject before the call of line 130.
Scenario(g, o, d) == [graph |-> g, origin |-> o, destination |-> d]

Scenarios ==
  { Scenario(ExampleGraph, od[1], od[2]) :
      od \in {<<1, 4>>, <<1, 1>>, <<4, 1>>, <<2, 3>>, <<3, 4>>} }
  \cup { Scenario(CycleGraph, od[1], od[2]) : od \in {<<1, 4>>, <<3, 1>>} }
  \cup { Scenario(ZeroGraph, od[1], od[2]) :
           od \in {<<1, 3>>, <<2, 3>>, <<3, 3>>, <<3, 2>>} }
  \cup { Scenario(HeapGraph, 1, 6) }
  \cup { Scenario(TieGraph, 1, 4) }

RolloutChoices == 1..MaxRollouts \cup {DefaultRollouts}

\* ---------------------------------------------------------------- state
VARIABLES
  G,                \* the graph, with the current weight of every edge
  origin, destination, rollouts,     \* the arguments of online_planning
  pc,               \* the control point of online_planning
  current_node, path, neighbors, best_choice, best_score,
  ni,               \* position of the for loop in neighbors
  neighbor, simulated_costs, avg_cost,
  result,           \* the returned value, when pc = "done"
  calls,            \* how often each collaborator was called so far
  blocked,          \* the edges drawn as blocked by the last redraw
  any_blocked,      \* whether any draw so far has blocked an edge
  scores            \* the scores of the neighbors scored so far at this node

vars == << G, origin, destination, rollouts, pc, current_node, path,
           neighbors, best_choice, best_score, ni, neighbor,
           simulated_costs, avg_cost, result, calls, blocked,
           any_blocked, scores >>

NoCalls == [neighbors |-> 0, redraw |-> 0, length |-> 0, path |-> 0]

\* line 70 has drawn the weights once; lines 88-89
Init ==
  \E s \in Scenarios :
    \E B \in Draws(s.graph) :
      /\ G = assign_dynamic_weights(s.graph, B)
      /\ blocked = B
      /\ any_blocked = (B # {})
      /\ origin = s.origin
      /\ destination = s.destination
      /\ rollouts \in RolloutChoices
      /\ pc = "while"
      /\ current_node = s.origin
      /\ path = <<s.origin>>
      /\ neighbors = <<>>
      /\ best_choice = None
      /\ best_score = Inf
      /\ ni = 0
      /\ neighbor = None
      /\ simulated_costs = <<>>
      /\ avg_cost = None
      /\ result = <<>>
      /\ calls = NoCalls
      /\ scores = <<>>

\* lines 91, 128: the loop ends at the destination and the path is returned
Return ==
  /\ pc = "while"
  /\ current_node = destination
  /\ result' = path
  /\ pc' = "done"
  /\ UNCHANGED << G, origin, destination, rollouts, current_node, path,
                  neighbors, best_choice, best_score, ni, neighbor,
                  simulated_costs, avg_cost, calls, blocked,
                  any_blocked,
                  scores >>

\* the dead-end branch entered without the test of line 91
DeadEnd_untested ==
  /\ pc = "while"
  /\ Successors(G, current_node) = <<>>
  /\ neighbors' = <<>>
  /\ calls' = [calls EXCEPT !.neighbors = @ + 1]
  /\ pc' = "dead_end"
  /\ UNCHANGED << G, origin, destination, rollouts, current_node, path,
                  best_choice, best_score, ni, neighbor, simulated_costs,
                  avg_cost, result, blocked, any_blocked, scores >>

\* lines 92-94: no successor
DeadEnd ==
  /\ pc = "while"
  /\ current_node # destination
  /\ Successors(G, current_node) = <<>>
  /\ neighbors' = <<>>
  /\ calls' = [calls EXCEPT !.neighbors = @ + 1]
  /\ pc' = "dead_end"
  /\ UNCHANGED << G, origin, destination, rollouts, current_node, path,
                  best_choice, best_score, ni, neighbor, simulated_costs,
                  avg_cost, result, blocked,
                  any_blocked,
                  scores >>

\* the loop body entered without the test of line 91
Neighbors_untested ==
  /\ pc = "while"
  /\ Successors(G, current_node) # <<>>
  /\ neighbors' = Successors(G, current_node)
  /\ calls' = [calls EXCEPT !.neighbors = @ + 1]
  /\ best_choice' = None
  /\ best_score' = Inf
  /\ ni' = 1
  /\ scores' = <<>>
  /\ pc' = "for"
  /\ UNCHANGED << G, origin, destination, rollouts, current_node, path,
                  neighbor, simulated_costs, avg_cost, result, blocked,
                  any_blocked >>

\* lines 92, 102-103: the successors are fetched, the search for the best
\* one starts
Neighbors ==
  /\ pc = "while"
  /\ current_node # destination
  /\ Successors(G, current_node) # <<>>
  /\ neighbors' = Successors(G, current_node)
  /\ calls' = [calls EXCEPT !.neighbors = @ + 1]
  /\ best_choice' = None
  /\ best_score' = Inf
  /\ ni' = 1
  /\ scores' = <<>>
  /\ pc' = "for"
  /\ UNCHANGED << G, origin, destination, rollouts, current_node, path,
                  neighbor, simulated_costs, avg_cost, result, blocked,
                  any_blocked >>

\* lines 104-106: the next neighbor; all weights are drawn again, once
Redraw ==
  /\ pc = "for"
  /\ ni <= Len(neighbors)
  /\ neighbor' = neighbors[ni]
  /\ simulated_costs' = <<>>
  /\ \E B \in Draws(G) :
       /\ G' = assign_dynamic_weights(G, B)
       /\ blocked' = B
       /\ any_blocked' = (any_blocked \/ B # {})
  /\ calls' = [calls EXCEPT !.redraw = @ + 1]
  /\ pc' = "rollout"
  /\ UNCHANGED << origin, destination, rollouts, current_node, path,
                  neighbors, best_choice, best_score, ni, avg_cost, result,
                  scores >>

\* NetworkXNoPath answered by a cost of 0 instead of inf
Trial_zero ==
  /\ pc = "rollout"
  /\ Len(simulated_costs) < rollouts
  /\ LET r == shortest_path_length(G, neighbor, destination)
     IN IF r.kind = "ValueError"
        THEN pc' = "raised" /\ UNCHANGED simulated_costs
        ELSE /\ simulated_costs' =
                  Append(simulated_costs,
                         IF r.kind = "ok" THEN r.value ELSE 0)
             /\ pc' = "rollout"
  /\ calls' = [calls EXCEPT !.length = @ + 1]
  /\ UNCHANGED << G, origin, destination, rollouts, current_node, path,
                  neighbors, best_choice, best_score, ni, neighbor, avg_cost,
                  result, blocked, any_blocked, scores >>

\* lines 107-112: one rollout, under the weights as they are
Trial ==
  /\ pc = "rollout"
  /\ Len(simulated_costs) < rollouts
  /\ LET r == shortest_path_length(G, neighbor, destination)
     IN IF r.kind = "ValueError"
        THEN pc' = "raised" /\ UNCHANGED simulated_costs
        ELSE /\ simulated_costs' =
                  Append(simulated_costs,
                         IF r.kind = "ok" THEN r.value ELSE Inf)
             /\ pc' = "rollout"
  /\ calls' = [calls EXCEPT !.length = @ + 1]
  /\ UNCHANGED << G, origin, destination, rollouts, current_node, path,
                  neighbors, best_choice, best_score, ni, neighbor, avg_cost,
                  result, blocked,
                  any_blocked,
                  scores >>

\* sum(xs)
RECURSIVE sum(_, _, _)
sum(xs, i, acc) == IF i > Len(xs) THEN acc ELSE sum(xs, i + 1, FAdd(acc, xs[i]))

\* the sum divided by the default number of rollouts
average_default(costs, n) == FDiv(sum(costs, 1, 0), DefaultRollouts)

\* line 113
average(costs, n) == FDiv(sum(costs, 1, 0), n)

\* the comparison of line 114 turned around
Average_largest ==
  /\ pc = "rollout"
  /\ Len(simulated_costs) = rollouts
  /\ avg_cost' = average(simulated_costs, rollouts)
  /\ IF FLt(best_score, avg_cost') \/ best_choice = None
     THEN best_score' = avg_cost' /\ best_choice' = neighbor
     ELSE UNCHANGED << best_score, best_choice >>
  /\ ni' = ni + 1
  /\ scores' = Append(scores, avg_cost')
  /\ pc' = "for"
  /\ UNCHANGED << G, origin, destination, rollouts, current_node, path,
                  neighbors, neighbor, simulated_costs, result, calls,
                  blocked, any_blocked >>

\* the comparison of line 114 with <= : the last of equal scores wins
Average_last ==
  /\ pc = "rollout"
  /\ Len(simulated_costs) = rollouts
  /\ avg_cost' = average(simulated_costs, rollouts)
  /\ IF FLt(avg_cost', best_score) \/ FEq(avg_cost', best_score)
     THEN best_score' = avg_cost' /\ best_choice' = neighbor
     ELSE UNCHANGED << best_score, best_choice >>
  /\ ni' = ni + 1
  /\ scores' = Append(scores, avg_cost')
  /\ pc' = "for"
  /\ UNCHANGED << G, origin, destination, rollouts, current_node, path,
                  neighbors, neighbor, simulated_costs, result, calls,
                  blocked, any_blocked >>

\* lines 113-116: the neighbor's score; a strictly smaller score wins
Average ==
  /\ pc = "rollout"
  /\ Len(simulated_costs) = rollouts
  /\ avg_cost' = average(simulated_costs, rollouts)
  /\ IF FLt(avg_cost', best_score)
     THEN best_score' = avg_cost' /\ best_choice' = neighbor
     ELSE UNCHANGED << best_score, best_choice >>
  /\ ni' = ni + 1
  /\ scores' = Append(scores, avg_cost')
  /\ pc' = "for"
  /\ UNCHANGED << G, origin, destination, rollouts, current_node, path,
                  neighbors, neighbor, simulated_costs, result, calls,
                  blocked,
                  any_blocked >>

\* the loop left without the fallback query
Guard_break ==
  /\ pc = "for"
  /\ ni > Len(neighbors)
  /\ best_choice = None \/ \E i \in 1..Len(path) : path[i] = best_choice
  /\ result' = path
  /\ pc' = "done"
  /\ UNCHANGED << G, origin, destination, rollouts, current_node, path,
                  neighbors, best_choice, best_score, ni, neighbor,
                  simulated_costs, avg_cost, calls, blocked,
                  any_blocked,
                  scores >>

\* the fallback requested whatever the choice is
Guard_always ==
  /\ pc = "for"
  /\ ni > Len(neighbors)
  /\ pc' = "fallback"
  /\ UNCHANGED << G, origin, destination, rollouts, current_node, path,
                  neighbors, best_choice, best_score, ni, neighbor,
                  simulated_costs, avg_cost, result, calls, blocked,
                  any_blocked, scores >>

\* lines 117-118: no choice, or a choice already in the path
Guard ==
  /\ pc = "for"
  /\ ni > Len(neighbors)
  /\ best_choice = None \/ \E i \in 1..Len(path) : path[i] = best_choice
  /\ pc' = "fallback"
  /\ UNCHANGED << G, origin, destination, rollouts, current_node, path,
                  neighbors, best_choice, best_score, ni, neighbor,
                  simulated_costs, avg_cost, result, calls, blocked,
                  any_blocked,
                  scores >>

\* line 127 left out: the choice is appended but the planner stays put
Advance_stale ==
  /\ pc = "for"
  /\ ni > Len(neighbors)
  /\ ~(best_choice = None \/ \E i \in 1..Len(path) : path[i] = best_choice)
  /\ path' = Append(path, best_choice)
  /\ pc' = "while"
  /\ UNCHANGED << G, origin, destination, rollouts, current_node, neighbors,
                  best_choice, best_score, ni, neighbor, simulated_costs,
                  avg_cost, result, calls, blocked, any_blocked, scores >>

\* the cycle guard of line 117 left out
Advance_unguarded ==
  /\ pc = "for"
  /\ ni > Len(neighbors)
  /\ best_choice # None
  /\ path' = Append(path, best_choice)
  /\ current_node' = best_choice
  /\ pc' = "while"
  /\ UNCHANGED << G, origin, destination, rollouts, neighbors, best_choice,
                  best_score, ni, neighbor, simulated_costs, avg_cost,
                  result, calls, blocked, any_blocked,
                  scores >>

\* lines 117, 126-127: the choice is appended and becomes the current node
Advance ==
  /\ pc = "for"
  /\ ni > Len(neighbors)
  /\ ~(best_choice = None \/ \E i \in 1..Len(path) : path[i] = best_choice)
  /\ path' = Append(path, best_choice)
  /\ current_node' = best_choice
  /\ pc' = "while"
  /\ UNCHANGED << G, origin, destination, rollouts, neighbors, best_choice,
                  best_score, ni, neighbor, simulated_costs, avg_cost,
                  result, calls, blocked,
                  any_blocked,
                  scores >>

\* path = sp[1:], the committed prefix lost
Fallback_replace ==
  /\ pc \in {"dead_end", "fallback"}
  /\ LET sp == shortest_path(G, current_node, destination)
     IN IF sp.kind = "ok"
        THEN /\ path' = Tail(sp.value)
             /\ result' = path'
             /\ pc' = "done"
        ELSE IF sp.kind = "NetworkXNoPath"
        THEN /\ result' = <<>>
             /\ pc' = "done"
             /\ UNCHANGED path
        ELSE /\ pc' = "raised"
             /\ UNCHANGED << path, result >>
  /\ calls' = [calls EXCEPT !.path = @ + 1]
  /\ UNCHANGED << G, origin, destination, rollouts, current_node, neighbors,
                  best_choice, best_score, ni, neighbor, simulated_costs,
                  avg_cost, blocked, any_blocked, scores >>

\* path += sp, the current node appended again
Fallback_whole ==
  /\ pc \in {"dead_end", "fallback"}
  /\ LET sp == shortest_path(G, current_node, destination)
     IN IF sp.kind = "ok"
        THEN /\ path' = path \o sp.value
             /\ result' = path'
             /\ pc' = "done"
        ELSE IF sp.kind = "NetworkXNoPath"
        THEN /\ result' = <<>>
             /\ pc' = "done"
             /\ UNCHANGED path
        ELSE /\ pc' = "raised"
             /\ UNCHANGED << path, result >>
  /\ calls' = [calls EXCEPT !.path = @ + 1]
  /\ UNCHANGED << G, origin, destination, rollouts, current_node, neighbors,
                  best_choice, best_score, ni, neighbor, simulated_costs,
                  avg_cost, blocked, any_blocked,
                  scores >>

\* NetworkXNoPath answered by break: the path so far is returned
Fallback_partial ==
  /\ pc \in {"dead_end", "fallback"}
  /\ LET sp == shortest_path(G, current_node, destination)
     IN IF sp.kind = "ok"
        THEN /\ path' = path \o Tail(sp.value)
             /\ result' = path'
             /\ pc' = "done"
        ELSE IF sp.kind = "NetworkXNoPath"
        THEN /\ result' = path
             /\ pc' = "done"
             /\ UNCHANGED path
        ELSE /\ pc' = "raised"
             /\ UNCHANGED << path, result >>
  /\ calls' = [calls EXCEPT !.path = @ + 1]
  /\ UNCHANGED << G, origin, destination, rollouts, current_node, neighbors,
                  best_choice, best_score, ni, neighbor, simulated_costs,
                  avg_cost, blocked, any_blocked,
                  scores >>

\* lines 95-101 and 119-125: the global shortest path from the current
\* node; its tail is appended and the path returned (lines 97-98, 128), or
\* the empty list is returned (line 101)
Fallback ==
  /\ pc \in {"dead_end", "fallback"}
  /\ LET sp == shortest_path(G, current_node, destination)
     IN IF sp.kind = "ok"
        THEN /\ path' = path \o Tail(sp.value)
             /\ result' = path'
             /\ pc' = "done"
        ELSE IF sp.kind = "NetworkXNoPath"
        THEN /\ result' = <<>>
             /\ pc' = "done"
             /\ UNCHANGED path
        ELSE /\ pc' = "raised"
             /\ UNCHANGED << path, result >>
  /\ calls' = [calls EXCEPT !.path = @ + 1]
  /\ UNCHANGED << G, origin, destination, rollouts, current_node, neighbors,
                  best_choice, best_score, ni, neighbor, simulated_costs,
                  avg_cost, blocked,
                  any_blocked,
                  scores >>

Next ==
  \/ Return
  \/ DeadEnd
  \/ Neighbors
  \/ Redraw
  \/ Trial
  \/ Average
  \/ Guard
  \/ Advance
  \/ Fallback

Spec == Init /\ [][Next]_vars

\* =================================================================
\* Properties
\* =================================================================
NumNodes == Cardinality(G.nodes)

InPath(n, p) == \E i \in 1..Len(p) : p[i] = n

HasEdge(g, a, b) == \E i \in EdgeIds(g) : g.edges[i].u = a /\ g.edges[i].v = b

\* the nodes reachable from the set S along directed edges, whatever their
\* weights
RECURSIVE ReachableFrom(_, _)
ReachableFrom(g, S) ==
  LET T == S \cup {n \in g.nodes : \E m \in S : HasEdge(g, m, n)}
  IN IF T = S THEN S ELSE ReachableFrom(g, T)

Connected(g, a, b) == b \in ReachableFrom(g, {a})

\* an attribute dictionary without its weight
StaticData(data) == [k \in DOMAIN data \ {"weight"} |-> data[k]]

\* a graph without its weights
Static(g) ==
  [g EXCEPT !.edges =
     [i \in EdgeIds(g) |-> [g.edges[i] EXCEPT !.data = StaticData(@)]]]

\* The least total weight of a walk from a to b when no edge is blocked
\* (weight = length * base factor, in halves), by k rounds of relaxation;
\* Inf when there is none
UnblockedWeight(g, i) == Get(g.edges[i].data, "length", 1) * base_factor(g.edges[i].data)

Least(S) == CHOOSE x \in S : \A y \in S : x <= y

RECURSIVE WalkCost(_, _, _, _)
WalkCost(g, a, b, k) ==
  IF a = b THEN 0
  ELSE IF k = 0 THEN Inf
  ELSE Least({Inf} \cup
             { LET rest == WalkCost(g, g.edges[i].v, b, k - 1)
               IN IF rest = Inf THEN Inf ELSE UnblockedWeight(g, i) + rest :
               i \in {j \in EdgeIds(g) : g.edges[j].u = a} })

UnblockedDistance(g, a, b) == WalkCost(g, a, b, Cardinality(g.nodes) - 1)

\* a score has just been computed for `neighbor` (line 113)
Scored == pc = "for" /\ ni > 1

\* C1: a returned value is the empty sequence or a path from the origin to
\* the destination; no partial path is returned
ResultIsPathOrEmpty ==
  pc = "done" =>
    \/ result = <<>>
    \/ result[1] = origin /\ result[Len(result)] = destination

\* C1 witness: a path returned through the fallback, after advancing
FallbackPathReturned ==
  /\ pc = "done"
  /\ calls.path = 1
  /\ calls.redraw > 0
  /\ Len(result) > 2
  /\ result[Len(result)] = destination

\* C2 as stated: a returned path has at most NumNodes + 1 elements
LengthAtMostNodesPlusOne ==
  (pc = "done" /\ result # <<>>) => Len(result) <= NumNodes + 1

\* C2 amended: a returned path has at most 2 * NumNodes - 2 elements in a
\* graph of two or more nodes (the committed prefix holds at most
\* NumNodes - 1 nodes, the fallback appends at most NumNodes - 1 more) and
\* one element in a graph of one node
LengthAtMostTwiceNodes ==
  (pc = "done" /\ result # <<>>) =>
    Len(result) <= (IF NumNodes = 1 THEN 1 ELSE 2 * NumNodes - 2)

\* C2 witness: a returned path longer than NumNodes + 1, through a fallback
\* segment that walks back over the committed prefix
LongestPathReturned ==
  /\ pc = "done"
  /\ calls.path = 1
  /\ Len(result) > NumNodes + 1
  /\ \E i, j \in 1..Len(result) : i # j /\ result[i] = result[j]

\* C3: every two consecutive elements of the path, and of the returned
\* path, are joined by a directed edge of the graph
ConsecutiveJoined ==
  /\ \A i \in 1..(Len(path) - 1) : HasEdge(G, path[i], path[i + 1])
  /\ pc = "done" =>
       \A i \in 1..(Len(result) - 1) : HasEdge(G, result[i], result[i + 1])

\* C3 witness: a returned path made of advancing steps and a fallback
\* segment of more than one edge
AdvancedThenFallbackSegment ==
  /\ pc = "done"
  /\ calls.path = 1
  /\ result # <<>>
  /\ Len(result) >= Len(neighbors) + 3
  /\ current_node # origin
  /\ result[Len(result) - 1] # current_node

\* C4: without a directed path from origin to destination the planner
\* returns the empty sequence
UnreachableReturnsEmpty ==
  (pc = "done" /\ ~Connected(G, origin, destination)) => result = <<>>

\* C4 witness: the empty result of a run that scored neighbors first, to
\* an unreachable destination
UnreachableAfterScoring ==
  /\ pc = "done"
  /\ ~Connected(G, origin, destination)
  /\ calls.redraw > 0
  /\ any_blocked
  /\ result = <<>>

\* C5: with origin = destination the path [origin] is returned, no
\* collaborator is called and no weight changes
TrivialCase ==
  [][origin = destination =>
       /\ pc = "while" /\ pc' = "done"
       /\ result' = <<origin>>
       /\ calls = NoCalls /\ calls' = NoCalls
       /\ G' = G]_vars

\* C5 witness: the planner has returned with origin = destination
TrivialReturned ==
  /\ pc = "done"
  /\ origin = destination
  /\ result = <<origin>>
  /\ \E i \in EdgeIds(G) : G.edges[i].data.weight = Inf

\* the run of the worked example: A = 1 to D = 4, rollouts = 5, nothing
\* ever blocked
ExampleRun ==
  /\ Static(G) = ExampleGraph
  /\ origin = 1
  /\ destination = 4
  /\ rollouts = DefaultRollouts
  /\ ~any_blocked

\* C6: in the worked example B is scored 5 and C is scored 1, the planner
\* advances to C and then to D, and returns [A, C, D]
WorkedExample ==
  ExampleRun =>
    /\ (Scored /\ current_node = 1 /\ neighbor = 2) => avg_cost = 5 * Unit
    /\ (Scored /\ current_node = 1 /\ neighbor = 3) =>
         avg_cost = 1 * Unit /\ best_choice = 3
    /\ \E n \in 1..3 : path = SubSeq(<<1, 3, 4>>, 1, n)
    /\ calls.path = 0
    /\ pc = "done" => result = <<1, 3, 4>>

\* C6 witness: the worked example has returned
WorkedExampleReturned == ExampleRun /\ pc = "done" /\ calls.length = 3 * DefaultRollouts

\* C7: every edge has a weight that is a non-negative number or +infinity
WeightsDefined ==
  \A i \in EdgeIds(G) :
    /\ "weight" \in DOMAIN G.edges[i].data
    /\ G.edges[i].data.weight # NaN
    /\ G.edges[i].data.weight >= 0

\* C8: no step changes the nodes, the edges or a static edge attribute;
\* only weights change
OnlyWeightsChange ==
  [][/\ G'.nodes = G.nodes
     /\ Static(G') = Static(G)
     /\ \A i \in EdgeIds(G') : "weight" \in DOMAIN G'.edges[i].data]_vars

\* C8 witness: a run that has redrawn the weights more than once, the last
\* time with a blocked edge
WeightsRedrawn ==
  /\ calls.redraw >= 2
  /\ pc = "done"
  /\ \E i \in EdgeIds(G) : G.edges[i].data.weight = Inf

ScoreIsMean ==
  Scored =>
    /\ avg_cost = Inf <=> \E i \in 1..Len(simulated_costs) : simulated_costs[i] = Inf
    /\ avg_cost # Inf =>
         /\ \A i \in 1..Len(simulated_costs) : IsFinite(simulated_costs[i])
         /\ IsFinite(avg_cost)
         /\ avg_cost * rollouts = sum(simulated_costs, 1, 0)

\* C11: every distance query of a candidate is preceded by a redraw of its
\* own: there are never more queries than redraws, and once a candidate is
\* scored there have been as many redraws as queries
RedrawBeforeEachTrial ==
  /\ calls.length <= calls.redraw
  /\ Scored => calls.redraw = calls.length

\* every neighbor of the current node has been scored (line 117 is next)
Decided == pc = "for" /\ ni > Len(neighbors)

\* line 117 will let the planner advance to best_choice
Advancing == Decided /\ best_choice # None /\ ~InPath(best_choice, path)

\* the position of best_choice among the neighbors
BestIndex == CHOOSE j \in 1..Len(neighbors) : neighbors[j] = best_choice

\* C12 as stated: the chosen neighbor has the smallest score, and among
\* neighbors of the same score it has the lowest identifier
LowestIdentifierWins ==
  Advancing =>
    \A j \in 1..Len(neighbors) :
      /\ ~FLt(scores[j], scores[BestIndex])
      /\ FEq(scores[j], scores[BestIndex]) => best_choice <= neighbors[j]

\* C12 amended: the chosen neighbor has a finite score that no neighbor's
\* score is smaller than, and among neighbors of the same score it is the
\* one the graph enumerates first
FirstEnumeratedWins ==
  Advancing =>
    /\ IsFinite(scores[BestIndex])
    /\ scores[BestIndex] = best_score
    /\ \A j \in 1..Len(neighbors) :
         /\ ~FLt(scores[j], scores[BestIndex])
         /\ FEq(scores[j], scores[BestIndex]) => BestIndex <= j

\* C12 witness: the planner is about to advance to a neighbor that shares
\* the smallest score with a neighbor of a lower identifier
TieWonByFirst ==
  /\ Advancing
  /\ \E j \in 1..Len(neighbors) :
       /\ FEq(scores[j], scores[BestIndex])
       /\ neighbors[j] < best_choice
       /\ BestIndex < j

\* no neighbor of the current node has a finite score
NoFiniteScore == \A j \in 1..Len(scores) : ~IsFinite(scores[j])

\* C13: a step at a node other than the destination requests the fallback
\* exactly when the node has no successor, or no neighbor has a finite
\* score, or the best neighbor is already in the path; otherwise it appends
\* the best neighbor, makes it current and goes on without a fallback query
FallbackExactlyWhen ==
  [][/\ (pc = "while" /\ current_node # destination) =>
          /\ path' = path
          /\ calls'.path = calls.path
          /\ IF Successors(G, current_node) = <<>>
             THEN pc' = "dead_end" ELSE pc' = "for"
     /\ Decided =>
          IF NoFiniteScore \/ InPath(best_choice, path)
          THEN /\ pc' = "fallback"
               /\ path' = path
               /\ current_node' = current_node
          ELSE /\ pc' = "while"
               /\ path' = Append(path, best_choice)
               /\ current_node' = best_choice
               /\ calls'.path = calls.path
     /\ (pc' \in {"dead_end", "fallback"} /\ pc' # pc) =>
          /\ current_node # destination
          /\ pc = "while" \/ Decided
     /\ calls'.path # calls.path => pc \in {"dead_end", "fallback"}]_vars

\* C13 witness: the fallback requested by the cycle guard, two advancing
\* steps into the run
CycleGuardFallback ==
  /\ pc = "fallback"
  /\ best_choice # None
  /\ InPath(best_choice, path)
  /\ Len(path) >= 3
  /\ ~NoFiniteScore

\* the simple paths of g from a to b, as sequences of nodes
RECURSIVE Extend(_, _, _)
Extend(g, p, b) ==
  IF p[Len(p)] = b THEN {p}
  ELSE UNION { Extend(g, Append(p, n), b) :
               n \in {m \in g.nodes : HasEdge(g, p[Len(p)], m) /\ ~InPath(m, p)} }

SimplePaths(g, a, b) == Extend(g, <<a>>, b)

\* the total weight of a path under the current weights, added as floats
\* from the first edge on
RECURSIVE PathWeight(_, _, _, _)
PathWeight(g, p, i, acc) ==
  IF i >= Len(p) THEN acc
  ELSE PathWeight(g, p, i + 1, FAdd(acc, EdgeCost(g, p[i], p[i + 1])))

\* p is a path of g from a to b that no simple path from a to b weighs less
\* than
IsShortestPath(g, p, a, b) ==
  /\ p \in SimplePaths(g, a, b)
  /\ \A q \in SimplePaths(g, a, b) :
       ~FLt(PathWeight(g, q, 1, 0), PathWeight(g, p, 1, 0))

\* C14: when the fallback query returns a path, the result is the path
\* committed so far followed by a shortest path, under the weights in
\* force, from the current node to the destination without its first node:
\* the prefix is kept and the current node is not repeated at the junction
FallbackSplice ==
  [][(pc \in {"dead_end", "fallback"} /\ pc' = "done" /\ result' # <<>>) =>
       /\ result' = path'
       /\ Len(result') > Len(path)
       /\ SubSeq(result', 1, Len(path)) = path
       /\ result'[Len(path)] = current_node
       /\ result'[Len(path) + 1] # current_node
       /\ IsShortestPath(G, SubSeq(result', Len(path), Len(result')),
                         current_node, destination)]_vars

\* C14 witness: a returned fallback segment that weighs less than another
\* simple path from the current node to the destination
FallbackChoseLighter ==
  /\ pc = "done"
  /\ calls.path = 1
  /\ result # <<>>
  /\ LET start == CHOOSE i \in 1..Len(result) : result[i] = current_node
         seg == SubSeq(result, start, Len(result))
     IN \E q \in SimplePaths(G, current_node, destination) :
          FLt(PathWeight(G, seg, 1, 0), PathWeight(G, q, 1, 0))

FallbackStart == CHOOSE i \in 1..Len(result) : result[i] = current_node

\* C15: an edge of weight +inf is as good as removed for the fallback oracle:
\* every consecutive pair of a returned fallback segment is joined by an edge
\* of finite weight (so when every route has a pair joined by +inf edges only,
\* the result is empty)
BlockedEdgesAvoided ==
  (pc = "done" /\ calls.path = 1 /\ result # <<>>) =>
     \A i \in FallbackStart..(Len(result) - 1) :
        IsFinite(EdgeCost(G, result[i], result[i + 1]))

\* C16: the planner terminates with a returned result: no exception escapes,
\* at most (number of nodes - 1) advancing steps are taken and at most one
\* fallback query is made
TerminatesWithResult ==
  /\ pc # "raised"
  /\ calls.path <= 1
  /\ calls.path = 0 => Len(path) - 1 <= NumNodes - 1
  /\ calls.neighbors <= NumNodes

\* C17: until a fallback segment is appended the path has no node twice,
\* starts at the origin and ends at the current node (so an advancing step
\* appends only a node that is not yet in the path)
PathIsSimpleWalk ==
  calls.path = 0 =>
    /\ Len(path) >= 1
    /\ \A i, j \in 1..Len(path) : path[i] = path[j] => i = j
    /\ path[1] = origin
    /\ path[Len(path)] = current_node

\* C17 witness: three nodes committed, a successor of the current node is
\* already in the path
VisitedSuccessorSkipped ==
  /\ calls.path = 0
  /\ Len(path) >= 3
  /\ pc = "for"
  /\ \E j \in 1..Len(neighbors) : InPath(neighbors[j], path)

\* C18: when the destination is reachable from the origin along the edges of
\* the graph, it is reachable from every node the planner makes current, and
\* the dead-end branch is not taken
CurrentNodeReachesDestination ==
  Connected(G, origin, destination) =>
    /\ Connected(G, current_node, destination)
    /\ \A i \in 1..Len(path) : calls.path = 0 => Connected(G, path[i], destination)
    /\ pc # "dead_end"

\* C18 witness: the planner has advanced past a node one of whose successors
\* cannot reach the destination
DeadEndSuccessorPassed ==
  /\ Connected(G, origin, destination)
  /\ calls.path = 0
  /\ Len(path) >= 3
  /\ \E n \in G.nodes : /\ HasEdge(G, path[Len(path) - 1], n)
                        /\ ~Connected(G, n, destination)

\* C19: the dead-end branch is taken at a node other than the destination
\* that has no successor; its fallback query finds no path and the planner
\* returns the empty list
DeadEndReturnsEmpty ==
  [][/\ (pc' = "dead_end" /\ pc # "dead_end") =>
          /\ current_node # destination
          /\ Successors(G, current_node) = <<>>
     /\ pc = "dead_end" =>
          /\ shortest_path(G, current_node, destination).kind = "NetworkXNoPath"
          /\ pc' = "done"
          /\ result' = <<>>
          /\ calls'.path = calls.path + 1]_vars

\* C19 witness: the empty list returned from a dead end, the destination
\* having incoming edges
DeadEndReturned ==
  /\ pc = "done"
  /\ neighbors = <<>>
  /\ calls.neighbors = 1
  /\ calls.path = 1
  /\ result = <<>>
  /\ \E n \in G.nodes : HasEdge(G, n, destination)

====
